---- MODULE Spec2Model ----
(***************************************************************************)
(* Model of the elasticsearch-bm25 repository.                             *)
(*                                                                         *)
(* The repository holds two independent programs that talk to an           *)
(* Elasticsearch backend:                                                  *)
(*   - main.py: a REST service over the lexical index "documents";         *)
(*   - elasticsearch_handler.py: ElasticsearchHandler, a hybrid            *)
(*     (BM25 + k-NN) handler over an index of its own.                     *)
(* A behaviour runs one of the two (variable program).  The backend and    *)
(* the embedding provider are external: every call to them may fail, and   *)
(* the hits of a search come back with scores and in an order the caller   *)
(* does not control; both are inputs drawn with \E.                        *)
(***************************************************************************)
EXTENDS Integers, Sequences, FiniteSets

VARIABLES
    program,       \* which program runs: "rest" (main.py) or "handler"
    service,       \* main.py: "stopped" | "running"
    restIndex,     \* the backend index INDEX_NAME of main.py
    handler,       \* "none" | "ready": whether an ElasticsearchHandler was constructed
    handlerIndex,  \* the backend index self.index_name of the handler
    last           \* the last operation: its inputs, backend calls and outcome

vars == <<program, service, restIndex, handler, handlerIndex, last>>

---------------------------------------------------------------------------
(* Bounds of the model *)

MaxSize == 3      \* search sizes / top_k range over 1..MaxSize
MaxScore == 2     \* backend scores range over 1..MaxScore
MaxBatch == 2     \* contents / metadata_list have at most MaxBatch elements
MaxStored == 3    \* the handler's index holds at most MaxStored documents

(* Program constants *)

embedding_dim == 1536
CandidateFactor == 10
max_retries == 10

DocIds == {"doc1", "doc2"}
DocCategories == {"programming", "web"}
None == "<None>"
Absent == "<absent>"
\* category values a search request can carry (None: field omitted)
QueryCategories == {None, "", "programming"}
Scores == 1..MaxScore

---------------------------------------------------------------------------
(* Sequences *)

Range(s) == {s[i] : i \in 1..Len(s)}

Take(s, n) == SubSeq(s, 1, IF n < Len(s) THEN n ELSE Len(s))

\* all sequences without repetition over the subsets of S, up to length n
RECURSIVE InjSeqs(_, _)
InjSeqs(S, n) ==
    IF n = 0 \/ S = {} THEN {<<>>}
    ELSE {<<>>} \cup UNION {{<<x>> \o t : t \in InjSeqs(S \ {x}, n - 1)} : x \in S}
BoundedSeqs(S, n) == UNION {[1..k -> S] : k \in 0..n}

---------------------------------------------------------------------------
(* The backend: one index *)

\* what the backend keeps of an index's settings and mappings
\* (analyzer: the analyzer of the content field; tokenizer: the tokenizer name that
\* analyzer refers to; custom_tokenizers: the tokenizers the settings declare)
NoSchema ==
    [analyzer |-> "none", tokenizer |-> "none", custom_tokenizers |-> {},
     category |-> "none", dims |-> 0]

\* main.py's index maps a document id to the document's category
NoDocs == [d \in DocIds |-> Absent]

NoIndex == [exists |-> FALSE, schema |-> NoSchema, docs |-> NoDocs, visible |-> NoDocs]

\* es.indices.exists: "error" when the backend cannot be reached
BackendExists(idx, fault) ==
    IF fault THEN "error" ELSE IF idx.exists THEN "yes" ELSE "no"

\* es.indices.create: fails when unreachable, when the backend rejects the schema
\* and when the index exists already
BackendCreateOk(idx, answer) == answer = "ok" /\ ~idx.exists

BackendCreate(idx, schema, empty, answer) ==
    IF BackendCreateOk(idx, answer)
    THEN [exists |-> TRUE, schema |-> schema, docs |-> empty, visible |-> empty]
    ELSE idx

RefreshNoop(idx) == idx

\* es.indices.refresh: what was written becomes visible to reads
Refresh(idx) == [idx EXCEPT !.visible = idx.docs]

---------------------------------------------------------------------------
(* main.py: the REST service over INDEX_NAME *)

\* the mapping startup_event declares
RestSchema ==
    [analyzer |-> "standard", tokenizer |-> "standard", custom_tokenizers |-> {},
     category |-> "keyword", dims |-> 0]

\* the mapping the backend derives when a document is indexed into an absent index
DynamicSchema ==
    [analyzer |-> "standard", tokenizer |-> "standard", custom_tokenizers |-> {},
     category |-> "text", dims |-> 0]

\* `if not es.indices.exists(index=INDEX_NAME)`
NotExists(answer) == answer = "no"

\* startup_event: every exception is logged and swallowed, the service starts
startup_event(idx, existsFault, createAnswer) ==
    LET answer == BackendExists(idx, existsFault) IN
    IF answer = "error"
    THEN [index |-> idx, calls |-> <<"indices.exists">>, error |-> TRUE]
    ELSE IF NotExists(answer)
    THEN [index |-> BackendCreate(idx, RestSchema, NoDocs, createAnswer),
          calls |-> <<"indices.exists", "indices.create">>,
          error |-> ~BackendCreateOk(idx, createAnswer)]
    ELSE [index |-> idx, calls |-> <<"indices.exists">>, error |-> FALSE]

\* es.index: writes the document; an absent index is created on the fly
BackendIndexDoc(idx, id, category) ==
    IF idx.exists
    THEN [idx EXCEPT !.docs[id] = category]
    ELSE [exists |-> TRUE, schema |-> DynamicSchema,
          docs |-> [NoDocs EXCEPT ![id] = category], visible |-> NoDocs]

\* add_document: index, refresh, 200; any exception becomes a 500
add_document(idx, id, category, indexFault, refreshFault) ==
    IF indexFault
    THEN [index |-> idx, calls |-> <<"index">>, status |-> 500]
    ELSE IF refreshFault
    THEN [index |-> BackendIndexDoc(idx, id, category),
          calls |-> <<"index", "indices.refresh">>, status |-> 500]
    ELSE [index |-> Refresh(BackendIndexDoc(idx, id, category)),
          calls |-> <<"index", "indices.refresh">>, status |-> 200]

\* es.delete fails when unreachable and when the index or the document is absent
BackendDeleteOk(idx, id, fault) == ~fault /\ idx.exists /\ idx.docs[id] # Absent

\* delete_document: delete, refresh, 200; any exception becomes a 500
delete_document(idx, id, deleteFault, refreshFault) ==
    IF ~BackendDeleteOk(idx, id, deleteFault)
    THEN [index |-> idx, calls |-> <<"delete">>, status |-> 500]
    ELSE IF refreshFault
    THEN [index |-> [idx EXCEPT !.docs[id] = Absent],
          calls |-> <<"delete", "indices.refresh">>, status |-> 500]
    ELSE [index |-> Refresh([idx EXCEPT !.docs[id] = Absent]),
          calls |-> <<"delete", "indices.refresh">>, status |-> 200]

\* the ids a read of the index sees
VisibleIds(idx) == {d \in DocIds : idx.visible[d] # Absent}

\* get_document_count
get_document_count(idx, fault) ==
    IF fault \/ ~idx.exists
    THEN [status |-> 500, count |-> 0]
    ELSE [status |-> 200, count |-> Cardinality(VisibleIds(idx))]

\* Python truth value of an Optional[str]
Truthy(s) == s # None /\ s # ""

NoFilter == "<no filter>"

\* search_documents: the request body
QueryBody(size, category) ==
    [must |-> "multi_match", size |-> size,
     filter |-> IF Truthy(category) THEN category ELSE NoFilter]

\* The backend's answer to a bool query.  ranking is the backend's list of the
\* visible documents the must clause matches, with their scores, in the order
\* the backend returns them; the filter clause removes documents without touching
\* the scores, and size cuts the list.
BackendHits(idx, body, ranking) ==
    LET Passes(h) == body.filter = NoFilter \/ idx.visible[h.id] = body.filter
    IN  Take(SelectSeq(ranking, Passes), body.size)

BackendTotal(idx, body, ranking) ==
    LET Passes(h) == body.filter = NoFilter \/ idx.visible[h.id] = body.filter
    IN  Len(SelectSeq(ranking, Passes))

\* the SearchResult list built from response.body["hits"]["hits"], in their order
RestResults(idx, hits) ==
    [i \in 1..Len(hits) |->
        [id |-> hits[i].id, category |-> idx.visible[hits[i].id], score |-> hits[i].score]]

\* search_documents
search_documents(idx, size, category, ranking, fault) ==
    IF fault \/ ~idx.exists
    THEN [status |-> 500, total |-> 0, results |-> <<>>]
    ELSE [status |-> 200,
          total |-> BackendTotal(idx, QueryBody(size, category), ranking),
          results |-> RestResults(idx, BackendHits(idx, QueryBody(size, category), ranking))]

\* the rankings a backend may return over the visible documents
Rankings(ids) ==
    UNION {{[i \in 1..Len(s) |-> [id |-> s[i], score |-> sc[i]]] : sc \in [1..Len(s) -> Scores]}
           : s \in InjSeqs(ids, Cardinality(ids))}

NoCall == [op |-> "none"]

\* no operation is under way: the caller has taken the outcome of the last one
Idle == last = NoCall

\* Operations are synchronous calls made one after the other: the caller takes the
\* outcome of an operation and goes on to its next call.
CallerContinues ==
    /\ ~Idle
    /\ last' = NoCall
    /\ UNCHANGED <<program, service, restIndex, handler, handlerIndex>>

Startup ==
    /\ Idle
    /\ program = "rest"
    /\ \E existsFault \in BOOLEAN, createAnswer \in {"ok", "unreachable", "rejected"} :
        LET r == startup_event(restIndex, existsFault, createAnswer) IN
        /\ restIndex' = r.index
        /\ service' = "running"
        /\ last' = [op |-> "startup_event", existsFault |-> existsFault,
                    calls |-> r.calls, error |-> r.error, outcome |-> "returned"]
    /\ UNCHANGED <<program, handler, handlerIndex>>

AddDocument ==
    /\ Idle
    /\ program = "rest" /\ service = "running"
    /\ \E id \in DocIds, category \in DocCategories, indexFault, refreshFault \in BOOLEAN :
        LET r == add_document(restIndex, id, category, indexFault, refreshFault) IN
        /\ restIndex' = r.index
        /\ last' = [op |-> "add_document", id |-> id, category |-> category,
                    calls |-> r.calls, status |-> r.status]
    /\ UNCHANGED <<program, service, handler, handlerIndex>>

DeleteDocument ==
    /\ Idle
    /\ program = "rest" /\ service = "running"
    /\ \E id \in DocIds, deleteFault, refreshFault \in BOOLEAN :
        LET r == delete_document(restIndex, id, deleteFault, refreshFault) IN
        /\ restIndex' = r.index
        /\ last' = [op |-> "delete_document", id |-> id, calls |-> r.calls, status |-> r.status]
    /\ UNCHANGED <<program, service, handler, handlerIndex>>

GetDocumentCount ==
    /\ Idle
    /\ program = "rest" /\ service = "running"
    /\ \E fault \in BOOLEAN :
        LET r == get_document_count(restIndex, fault) IN
        last' = [op |-> "get_document_count", status |-> r.status, count |-> r.count]
    /\ UNCHANGED <<program, service, restIndex, handler, handlerIndex>>

SearchDocuments ==
    /\ Idle
    /\ program = "rest" /\ service = "running"
    /\ \E size \in 1..MaxSize, category \in QueryCategories, fault \in BOOLEAN,
          ranking \in Rankings(VisibleIds(restIndex)) :
        LET r == search_documents(restIndex, size, category, ranking, fault) IN
        last' = [op |-> "search_documents", size |-> size, category |-> category,
                 ranking |-> ranking, failed |-> fault \/ ~restIndex.exists,
                 status |-> r.status, total |-> r.total, results |-> r.results]
    /\ UNCHANGED <<program, service, restIndex, handler, handlerIndex>>

---------------------------------------------------------------------------
(* elasticsearch_handler.py: ElasticsearchHandler *)

Contents == {"c1", "c2"}
Metadatas == {"m1"}
\* the lengths an embedding provider may return; embedding_dim is what the index expects
EmbeddingDims == {embedding_dim, embedding_dim \div 2}
SearchTypes == {"hybrid", "vector", "bm25", "lexical"}

\* the settings and mappings _create_index declares
HandlerSchema ==
    [analyzer |-> "nori_analyzer", tokenizer |-> "nori_tokenizer",
     custom_tokenizers |->
        {[name |-> "nori_user_dict", type |-> "nori_tokenizer",
          user_dictionary |-> "userdict_ko.txt", decompound_mode |-> "mixed"]},
     category |-> "none", dims |-> embedding_dim]

\* the backend's own tokenizers, with the settings they have when none is given
\* (nori_tokenizer discards the compound by default)
BuiltinTokenizers ==
    {[name |-> "nori_tokenizer", type |-> "nori_tokenizer",
      user_dictionary |-> "", decompound_mode |-> "discard"],
     [name |-> "standard", type |-> "standard",
      user_dictionary |-> "", decompound_mode |-> "none"]}

\* the tokenizer a name stands for in an index: a tokenizer the index's settings
\* declare under that name, a tokenizer of the backend otherwise
ResolveTokenizer(schema, name) ==
    IF \E t \in schema.custom_tokenizers : t.name = name
    THEN CHOOSE t \in schema.custom_tokenizers : t.name = name
    ELSE CHOOSE t \in BuiltinTokenizers : t.name = name

\* the tokenizer of the analyzer bound to the content field
ContentTokenizer(schema) == ResolveTokenizer(schema, schema.tokenizer)

\* the analyzer name of the match clauses of search_similar and of analyze_text
QueryAnalyzer == "nori_analyzer"

\* analyze_text: {} when the backend call fails (an analyzer the index does not have
\* is such a failure)
analyze_text(idx, fault) ==
    IF fault \/ ~idx.exists \/ idx.schema.analyzer # QueryAnalyzer
    THEN [ok |-> FALSE, analyzer |-> QueryAnalyzer, decompound_mode |-> "none"]
    ELSE [ok |-> TRUE, analyzer |-> QueryAnalyzer,
          decompound_mode |-> ContentTokenizer(idx.schema).decompound_mode]

\* client.ping() through a client built with max_retries and retry_on_timeout: the
\* transport sends the request, sends it again after each connection failure or
\* timeout, at most max_retries times, and ping answers False when the last try failed.
\* downFor: how many tries in a row the backend leaves unanswered from now on.
Ping(downFor) ==
    [attempts |-> IF downFor <= max_retries THEN downFor + 1 ELSE max_retries + 1,
     ok |-> downFor <= max_retries]

ConnectSwallowsFailure(pingOk) == [calls |-> <<"ping">>, raised |-> FALSE]

\* _connect: one ping through the client; a failed ping raises
_connect(pingOk) == [calls |-> <<"ping">>, raised |-> ~pingOk]

\* _create_index: any exception of indices.create is logged and raised again
_create_index(idx, createAnswer) ==
    [index |-> BackendCreate(idx, HandlerSchema, <<>>, createAnswer),
     calls |-> <<"indices.create">>,
     raised |-> ~BackendCreateOk(idx, createAnswer)]

NeverExists(answer) == FALSE

\* `if self.client.indices.exists(index=self.index_name)`
IndexExists(answer) == answer = "yes"

\* _setup_index: use the index if it exists, create it otherwise; exceptions are raised again
_setup_index(idx, existsFault, createAnswer) ==
    LET answer == BackendExists(idx, existsFault) IN
    IF answer = "error"
    THEN [index |-> idx, calls |-> <<"indices.exists">>, raised |-> TRUE]
    ELSE IF IndexExists(answer)
    THEN [index |-> idx, calls |-> <<"indices.exists">>, raised |-> FALSE]
    ELSE LET c == _create_index(idx, createAnswer) IN
         [index |-> c.index, calls |-> <<"indices.exists">> \o c.calls, raised |-> c.raised]

\* __init__: _connect, then _setup_index
ElasticsearchHandler(idx, pingOk, existsFault, createAnswer) ==
    IF _connect(pingOk).raised
    THEN [index |-> idx, calls |-> _connect(pingOk).calls, raised |-> TRUE]
    ELSE LET s == _setup_index(idx, existsFault, createAnswer) IN
         [index |-> s.index, calls |-> _connect(pingOk).calls \o s.calls, raised |-> s.raised]

Min(a, b) == IF a < b THEN a ELSE b

\* zip(contents, embeddings, metadata_list): as long as the shortest of the three
ZipActions(contents, embeddings, metadata_list) ==
    [i \in 1..Min(Len(contents), Min(Len(embeddings), Len(metadata_list))) |->
        [content |-> contents[i], embedding |-> embeddings[i], metadata |-> metadata_list[i]]]

\* helpers.bulk: the documents of a reachable backend's answer that the mapping accepts
\* (a dense_vector of another length than dims is refused, per document)
BulkAccepted(idx, actions) ==
    LET Fits(a) == a.embedding = idx.schema.dims IN SelectSeq(actions, Fits)

\* insert_embeddings.  embedFail: the contents whose embedding cannot be generated
\* (embed_documents is one call: it raises if any of them fails); embeddings: the
\* lengths of the vectors it returns otherwise.
insert_embeddings(idx, contents, metadata_list, embedFail, embeddings, bulkFault, refreshFault) ==
    LET actions == ZipActions(contents, embeddings, metadata_list)
        written == [idx EXCEPT !.docs = idx.docs \o BulkAccepted(idx, actions)]
    IN
    IF embedFail # {}
    THEN [index |-> idx, calls |-> <<"embed_documents">>, sent |-> <<>>, result |-> FALSE]
    ELSE IF actions = <<>>
    THEN \* bulk sends no request for an empty batch
         IF refreshFault
         THEN [index |-> idx, calls |-> <<"embed_documents", "indices.refresh">>,
               sent |-> <<>>, result |-> FALSE]
         ELSE [index |-> Refresh(idx), calls |-> <<"embed_documents", "indices.refresh">>,
               sent |-> <<>>, result |-> TRUE]
    ELSE IF bulkFault
    THEN [index |-> idx, calls |-> <<"embed_documents", "bulk">>,
          sent |-> actions, result |-> FALSE]
    ELSE IF BulkAccepted(idx, actions) # actions
    THEN \* BulkIndexError, raised after the accepted documents were written
         [index |-> written, calls |-> <<"embed_documents", "bulk">>,
          sent |-> actions, result |-> FALSE]
    ELSE IF refreshFault
    THEN [index |-> written, calls |-> <<"embed_documents", "bulk", "indices.refresh">>,
          sent |-> actions, result |-> FALSE]
    ELSE [index |-> Refresh(written),
          calls |-> <<"embed_documents", "bulk", "indices.refresh">>,
          sent |-> actions, result |-> TRUE]

BuildQueryFixedPool(search_type, top_k) ==
    IF search_type = "vector"
    THEN [match |-> FALSE, knn |-> TRUE, k |-> top_k,
          num_candidates |-> CandidateFactor, size |-> 0]
    ELSE IF search_type = "bm25"
    THEN [match |-> TRUE, knn |-> FALSE, k |-> 0, num_candidates |-> 0, size |-> top_k]
    ELSE [match |-> TRUE, knn |-> TRUE, k |-> top_k,
          num_candidates |-> CandidateFactor, size |-> top_k]

\* search_similar: the request body of each search_type; the else branch takes every
\* tag that is neither "vector" nor "bm25"
BuildQuery(search_type, top_k) ==
    IF search_type = "vector"
    THEN [match |-> FALSE, knn |-> TRUE, k |-> top_k,
          num_candidates |-> top_k * CandidateFactor, size |-> 0]
    ELSE IF search_type = "bm25"
    THEN [match |-> TRUE, knn |-> FALSE, k |-> 0, num_candidates |-> 0, size |-> top_k]
    ELSE [match |-> TRUE, knn |-> TRUE, k |-> top_k,
          num_candidates |-> top_k * CandidateFactor, size |-> top_k]

NoRequest == [match |-> FALSE, knn |-> FALSE, k |-> 0, num_candidates |-> 0, size |-> 0]

\* how many hits the backend returns at most: size (10 when the body names none),
\* and k for a knn-only request
ResponseLimit(request) ==
    IF request.size = 0 THEN Min(request.k, 10) ELSE request.size

RECURSIVE InsertBeforeTies(_, _)
InsertBeforeTies(sorted, x) ==
    IF sorted = <<>> THEN <<x>>
    ELSE IF Head(sorted).score > x.score
    THEN <<Head(sorted)>> \o InsertBeforeTies(Tail(sorted), x)
    ELSE <<x>> \o sorted

\* list.sort(key=score, reverse=True) is a stable sort: the one list in which the
\* scores do not increase and equal scores keep their order.  Built by inserting each
\* element behind the elements whose score is at least its own.
RECURSIVE InsertDesc(_, _)
InsertDesc(sorted, x) ==
    IF sorted = <<>> THEN <<x>>
    ELSE IF Head(sorted).score >= x.score
    THEN <<Head(sorted)>> \o InsertDesc(Tail(sorted), x)
    ELSE <<x>> \o sorted

RECURSIVE SortByScoreDesc(_)
SortByScoreDesc(s) ==
    IF s = <<>> THEN <<>>
    ELSE InsertDesc(SortByScoreDesc(SubSeq(s, 1, Len(s) - 1)), s[Len(s)])

\* the result dictionaries built from response['hits']['hits']
SearchResults(idx, hits) ==
    [i \in 1..Len(hits) |->
        [id |-> hits[i].id, score |-> hits[i].score,
         content |-> idx.visible[hits[i].id].content,
         metadata |-> idx.visible[hits[i].id].metadata]]

\* search_similar.  hits: the backend's answer, a list of visible documents with scores
search_similar(idx, top_k, search_type, embedOk, searchFault, hits) ==
    IF ~embedOk
    THEN [sent |-> FALSE, request |-> NoRequest, calls |-> <<"embed_query">>,
          failed |-> TRUE, results |-> <<>>]
    ELSE IF searchFault
    THEN [sent |-> TRUE, request |-> BuildQuery(search_type, top_k),
          calls |-> <<"embed_query", "search">>, failed |-> TRUE, results |-> <<>>]
    ELSE [sent |-> TRUE, request |-> BuildQuery(search_type, top_k),
          calls |-> <<"embed_query", "search">>, failed |-> FALSE,
          results |-> SortByScoreDesc(SearchResults(idx, hits))]

\* the answers a backend may give: documents a read sees, each once, with any scores
HitLists(idx, limit) ==
    UNION {{[i \in 1..Len(s) |-> [id |-> s[i], score |-> sc[i]]] : sc \in [1..Len(s) -> Scores]}
           : s \in InjSeqs(1..Len(idx.visible), limit)}

\* get_index_stats: {} when the backend call fails
get_index_stats(idx, fault) ==
    IF fault THEN [ok |-> FALSE, document_count |-> 0]
    ELSE [ok |-> TRUE, document_count |-> Len(idx.visible)]

Construct ==
    /\ Idle
    /\ program = "handler"
    /\ \E downFor \in 0..(max_retries + 2), existsFault \in BOOLEAN,
          createAnswer \in {"ok", "unreachable", "rejected"} :
        LET pingOk == Ping(downFor).ok
            r == ElasticsearchHandler(handlerIndex, pingOk, existsFault, createAnswer) IN
        /\ handlerIndex' = r.index
        /\ handler' = IF r.raised THEN "none" ELSE "ready"
        /\ last' = [op |-> "__init__", downFor |-> downFor,
                    attempts |-> Ping(downFor).attempts,
                    pingOk |-> pingOk, existsFault |-> existsFault,
                    calls |-> r.calls,
                    outcome |-> IF r.raised THEN "raised" ELSE "returned"]
    /\ UNCHANGED <<program, service, restIndex>>

InsertEmbeddings ==
    /\ Idle
    /\ program = "handler" /\ handler = "ready"
    /\ \E contents \in BoundedSeqs(Contents, MaxBatch),
          metadata_list \in BoundedSeqs(Metadatas, MaxBatch),
          bulkFault, refreshFault \in BOOLEAN :
        \E embedFail \in SUBSET (1..Len(contents)),
           embeddings \in [1..Len(contents) -> EmbeddingDims] :
            LET r == insert_embeddings(handlerIndex, contents, metadata_list, embedFail,
                                       embeddings, bulkFault, refreshFault) IN
            /\ Len(r.index.docs) <= MaxStored
            /\ handlerIndex' = r.index
            /\ last' = [op |-> "insert_embeddings", contents |-> contents,
                        metadata_list |-> metadata_list, embedFail |-> embedFail,
                        embeddings |-> embeddings, bulkFault |-> bulkFault,
                        refreshFault |-> refreshFault,
                        calls |-> r.calls, sent |-> r.sent, result |-> r.result]
    /\ UNCHANGED <<program, service, restIndex, handler>>

SearchSimilar ==
    /\ Idle
    /\ program = "handler" /\ handler = "ready"
    /\ \E top_k \in 1..MaxSize, search_type \in SearchTypes, embedOk, searchFault \in BOOLEAN :
        \E hits \in HitLists(handlerIndex, ResponseLimit(BuildQuery(search_type, top_k))) :
            LET r == search_similar(handlerIndex, top_k, search_type, embedOk, searchFault, hits) IN
            last' = [op |-> "search_similar", top_k |-> top_k, search_type |-> search_type,
                     embedOk |-> embedOk, searchFault |-> searchFault,
                     hits |-> IF r.failed THEN <<>> ELSE hits,
                     sent |-> r.sent, request |-> r.request, calls |-> r.calls,
                     failed |-> r.failed, outcome |-> "returned", results |-> r.results]
    /\ UNCHANGED <<program, service, restIndex, handler, handlerIndex>>

GetIndexStats ==
    /\ Idle
    /\ program = "handler" /\ handler = "ready"
    /\ \E fault \in BOOLEAN :
        LET r == get_index_stats(handlerIndex, fault) IN
        last' = [op |-> "get_index_stats", ok |-> r.ok, document_count |-> r.document_count]
    /\ UNCHANGED <<program, service, restIndex, handler, handlerIndex>>

AnalyzeText ==
    /\ Idle
    /\ program = "handler" /\ handler = "ready"
    /\ \E fault \in BOOLEAN :
        LET r == analyze_text(handlerIndex, fault) IN
        last' = [op |-> "analyze_text", ok |-> r.ok, analyzer |-> r.analyzer,
                 decompound_mode |-> r.decompound_mode]
    /\ UNCHANGED <<program, service, restIndex, handler, handlerIndex>>

---------------------------------------------------------------------------

NoHandlerIndex == [exists |-> FALSE, schema |-> NoSchema, docs |-> <<>>, visible |-> <<>>]

Init ==
    /\ program \in {"rest", "handler"}
    /\ service = "stopped"
    /\ restIndex = NoIndex
    /\ handler = "none"
    /\ handlerIndex = NoHandlerIndex
    /\ last = NoCall

Next ==
    \/ Startup
    \/ AddDocument
    \/ DeleteDocument
    \/ GetDocumentCount
    \/ SearchDocuments
    \/ Construct
    \/ InsertEmbeddings
    \/ SearchSimilar
    \/ GetIndexStats
    \/ AnalyzeText
    \/ CallerContinues

Spec == Init /\ [][Next]_vars

---------------------------------------------------------------------------
(* Properties *)

SearchOps == {"search_similar", "search_documents"}

\* C1: ensure-index is idempotent.  When the index exists already and the backend
\* answers the existence check, a run of the ensure-index step (_setup_index inside
\* __init__, startup_event) ends without error, issues no create call and leaves the
\* index (existence, schema, documents) as it was.
C1_EnsureIndexIdempotent ==
    [][/\ (last'.op = "__init__" /\ handlerIndex.exists
              /\ last'.pingOk /\ ~last'.existsFault)
          => /\ last'.outcome = "returned"
             /\ "indices.create" \notin Range(last'.calls)
             /\ handlerIndex' = handlerIndex
       /\ (last'.op = "startup_event" /\ restIndex.exists /\ ~last'.existsFault)
          => /\ last'.outcome = "returned" /\ ~last'.error
             /\ "indices.create" \notin Range(last'.calls)
             /\ restIndex' = restIndex
      ]_vars

\* a second construction found the index of the first, with documents in it
C1_Witness ==
    /\ last.op = "__init__" /\ last.outcome = "returned"
    /\ last.calls = <<"ping", "indices.exists">>
    /\ handlerIndex.schema = HandlerSchema
    /\ Len(handlerIndex.visible) > 0

Sorted(results) ==
    \A i \in 1..(Len(results) - 1) : results[i].score >= results[i + 1].score

\* C2: the results of every search operation (search_similar, POST /search/) are in
\* non-increasing order of score, whatever order the backend returned the hits in.
C2_ResultsSortedByScore ==
    (last.op \in SearchOps) => Sorted(last.results)

Pos(results, id) == CHOOSE p \in 1..Len(results) : results[p].id = id

\* C3: the result of search_similar is a permutation of the backend's hits, and two
\* hits of equal score keep the order the backend gave them.
C3_StableRanking ==
    (last.op = "search_similar" /\ ~last.failed) =>
        /\ Len(last.results) = Len(last.hits)
        /\ {[id |-> r.id, score |-> r.score] : r \in Range(last.results)} = Range(last.hits)
        /\ \A r \in Range(last.results) :
              /\ r.content = handlerIndex.visible[r.id].content
              /\ r.metadata = handlerIndex.visible[r.id].metadata
        /\ \A i, j \in 1..Len(last.hits) :
              (i < j /\ last.hits[i].score = last.hits[j].score)
                  => Pos(last.results, last.hits[i].id) < Pos(last.results, last.hits[j].id)

\* three hits, two of them tied behind a lower-scored first hit: the sort moves the
\* tied pair forward and keeps its order
C3_Witness ==
    /\ last.op = "search_similar" /\ ~last.failed
    /\ Len(last.hits) = 3
    /\ last.hits[1].score < last.hits[2].score
    /\ last.hits[2].score = last.hits[3].score
    /\ last.results[1].id = last.hits[2].id
    /\ last.results[2].id = last.hits[3].id

\* C4: when embedding generation fails, a bm25 search still sends its text-match
\* request and returns the backend's hits, and a vector or hybrid search fails with
\* an embedding error.
C4_LexicalIndependentOfEmbedding ==
    (last.op = "search_similar" /\ ~last.embedOk) =>
        IF last.search_type = "bm25"
        THEN last.sent /\ last.request.match /\ "search" \in Range(last.calls)
        ELSE last.outcome = "raised"

\* C5: a batch of n documents of which exactly one cannot be embedded (lists of equal
\* length, backend reachable, the other vectors of the right length): the other n-1
\* documents are written and the batch is not reported as failed.
C5_BulkPartialFailure ==
    (/\ last.op = "insert_embeddings"
     /\ Len(last.contents) >= 2
     /\ Cardinality(last.embedFail) = 1
     /\ Len(last.metadata_list) = Len(last.contents)
     /\ ~last.bulkFault /\ ~last.refreshFault
     /\ \A i \in 1..Len(last.contents) : last.embeddings[i] = embedding_dim)
    => /\ Len(last.sent) = Len(last.contents) - 1
       /\ last.result

\* the documents of main.py's index that are written and visible to reads
Committed(idx) == {d \in DocIds : idx.docs[d] # Absent /\ idx.visible[d] # Absent}

\* C6: read-after-write.  A write that returns success has crossed the refresh: the
\* documents it wrote are visible to reads; they stay visible until a delete of them,
\* and a count that succeeds counts them.
C6_ReadAfterWrite ==
    [][/\ (last'.op = "add_document" /\ last'.status = 200)
          => /\ last'.id \in Committed(restIndex')
             /\ restIndex'.visible[last'.id] = last'.category
       /\ \A d \in Committed(restIndex) :
             ~(last'.op = "delete_document" /\ last'.id = d) => d \in Committed(restIndex')
       /\ (last'.op = "get_document_count" /\ last'.status = 200)
          => last'.count >= Cardinality(Committed(restIndex))
       /\ (last'.op = "insert_embeddings" /\ last'.result)
          => /\ handlerIndex'.docs = handlerIndex.docs \o last'.sent
             /\ handlerIndex'.visible = handlerIndex'.docs
       /\ /\ Len(handlerIndex'.visible) >= Len(handlerIndex.visible)
          /\ SubSeq(handlerIndex'.visible, 1, Len(handlerIndex.visible)) = handlerIndex.visible
       /\ (last'.op = "get_index_stats" /\ last'.ok)
          => last'.document_count = Len(handlerIndex.visible)
      ]_vars

\* both documents were added with success, and a count issued afterwards sees both
C6_Witness ==
    /\ last.op = "get_document_count" /\ last.status = 200
    /\ last.count = 2
    /\ Committed(restIndex) = DocIds

\* C7: a search whose backend call (or embedding call) failed ends in a failure the
\* caller can tell from a successful search with no hits.
C7_FailureNotEmptySuccess ==
    /\ (last.op = "search_similar" /\ last.failed)
          => ~(last.outcome = "returned" /\ last.results = <<>>)
    /\ (last.op = "search_documents" /\ last.failed)
          => ~(last.status = 200 /\ last.results = <<>>)

\* the results of the same request without the category filter, same backend answer
Unfiltered == search_documents(restIndex, last.size, None, last.ranking, FALSE).results

\* C8: with a category supplied to POST /search/, every result has that category, and
\* the results are those of the same query without the filter, restricted to the
\* category, scores and order unchanged.
C8_CategoryFilterMembershipOnly ==
    (last.op = "search_documents" /\ last.status = 200 /\ last.category # None) =>
        LET InCategory(r) == r.category = last.category IN
        /\ \A r \in Range(last.results) : InCategory(r)
        /\ last.results = SelectSeq(Unfiltered, InCategory)

\* C9: every stored document has an embedding of length embedding_dim, and no write
\* request sent to the backend carries an embedding of another length.
C9_EmbeddingDimension ==
    /\ \A d \in Range(handlerIndex.docs) : d.embedding = embedding_dim
    /\ (last.op = "insert_embeddings")
          => \A a \in Range(last.sent) : a.embedding = embedding_dim

\* C10: an ensure-index step that fails (backend unreachable, schema rejected) ends in
\* a failure delivered to its caller, and the service does not run without an index.
C10_EnsureIndexFailureSurfaced ==
    /\ (last.op = "__init__" /\ last.pingOk /\ (last.existsFault \/ ~handlerIndex.exists))
          => last.outcome = "raised" /\ handler = "none"
    /\ (last.op = "startup_event" /\ last.error)
          => last.outcome = "raised" /\ service # "running"
    /\ (service = "running") => restIndex.exists

\* C11: connecting terminates.  When the backend stays unreachable, _connect makes a
\* bounded number of tries (the first and at most max_retries more), then raises to the
\* caller of the constructor, and no index-setup call (exists, create) is made.
C11_ConnectTerminates ==
    (last.op = "__init__") =>
        /\ last.attempts <= max_retries + 1
        /\ (last.downFor > max_retries) =>
              /\ last.outcome = "raised" /\ handler = "none"
              /\ last.calls = <<"ping">>

\* the backend never answered: the budget was used up and the constructor raised
C11_Witness ==
    /\ last.op = "__init__" /\ last.downFor > max_retries
    /\ last.attempts = max_retries + 1
    /\ last.outcome = "raised"

\* C12: candidate-pool sizing.  Every request search_similar sends in vector or hybrid
\* mode has a k-NN clause with k = top_k and num_candidates = top_k * C, C >= 10, so
\* num_candidates >= k.
C12_CandidatePool ==
    (last.op = "search_similar" /\ last.sent /\ last.search_type \in {"vector", "hybrid"}) =>
        /\ last.request.knn
        /\ last.request.k = last.top_k
        /\ last.request.num_candidates = last.top_k * CandidateFactor
        /\ CandidateFactor >= 10
        /\ last.request.num_candidates >= last.request.k

\* a hybrid request for the largest top_k of the model was sent
C12_Witness ==
    /\ last.op = "search_similar" /\ last.sent
    /\ last.search_type = "hybrid" /\ last.top_k = MaxSize
    /\ last.request.num_candidates = MaxSize * CandidateFactor

\* the three modes, under the tags search_similar gives them
ModeTags == {"bm25", "vector", "hybrid"}

\* C13: mode dispatch is exhaustive and closed.  A request is built only for one of
\* the three modes; it has a text-match clause exactly in lexical and hybrid mode and
\* a k-NN clause exactly in vector and hybrid mode.
C13_ModeDispatchClosed ==
    (last.op = "search_similar" /\ last.sent) =>
        /\ last.search_type \in ModeTags
        /\ last.request.match <=> last.search_type \in {"bm25", "hybrid"}
        /\ last.request.knn <=> last.search_type \in {"vector", "hybrid"}

---------------------------------------------------------------------------
(* Two processes run the ensure-index step against one absent index name, one
   backend call at a time. Both run the same program: startup_event of main.py
   (program = "rest") or ElasticsearchHandler.__init__ (program = "handler").
   last[p] is the position and the outcome of process p. *)

RaceProcs == {"p1", "p2"}

RaceStart ==
    [pc |-> "start", answer |-> "none", createAnswer |-> "none",
     created |-> FALSE, failed |-> FALSE, faulted |-> FALSE, outcome |-> "running"]

RaceInit ==
    /\ program \in {"rest", "handler"}
    /\ service = "stopped"
    /\ restIndex = NoIndex
    /\ handler = "none"
    /\ handlerIndex = NoHandlerIndex
    /\ last = [p \in RaceProcs |-> RaceStart]

SharedIndex == IF program = "rest" THEN restIndex ELSE handlerIndex

\* the outcome of a step that threw: __init__ raises, startup_event logs and returns
RaceThrown == IF program = "rest" THEN "returned" ELSE "raised"

\* __init__ line 15: _connect
RaceConnect(p) ==
    /\ program = "handler" /\ last[p].pc = "start"
    /\ \E pingOk \in BOOLEAN :
        last' = [last EXCEPT ![p] =
                    IF _connect(pingOk).raised
                    THEN [@ EXCEPT !.pc = "done", !.failed = TRUE, !.faulted = TRUE,
                                   !.outcome = "raised"]
                    ELSE [@ EXCEPT !.pc = "connected"]]
    /\ UNCHANGED <<program, service, restIndex, handler, handlerIndex>>

\* the exists check of _setup_index (line 40) and of startup_event (line 54)
RaceCheckExists(p) ==
    /\ last[p].pc = (IF program = "rest" THEN "start" ELSE "connected")
    /\ \E existsFault \in BOOLEAN :
        LET answer == BackendExists(SharedIndex, existsFault)
            absent == IF program = "rest" THEN NotExists(answer) ELSE ~IndexExists(answer)
        IN  last' = [last EXCEPT ![p] =
                        IF answer = "error"
                        THEN [@ EXCEPT !.pc = "done", !.answer = answer, !.failed = TRUE,
                                       !.faulted = TRUE, !.outcome = RaceThrown]
                        ELSE IF absent
                        THEN [@ EXCEPT !.pc = "checked", !.answer = answer]
                        ELSE [@ EXCEPT !.pc = "done", !.answer = answer,
                                       !.outcome = "returned"]]
    /\ UNCHANGED <<program, service, restIndex, handler, handlerIndex>>

\* indices.create of _create_index (line 110) and of startup_event (line 85), by
\* a process that was told the index is absent
RaceCreate(p) ==
    /\ last[p].pc = "checked"
    /\ \E createAnswer \in {"ok", "unreachable", "rejected"} :
        LET ok == BackendCreateOk(SharedIndex, createAnswer) IN
        /\ IF program = "rest"
           THEN /\ restIndex' = BackendCreate(restIndex, RestSchema, NoDocs, createAnswer)
                /\ UNCHANGED handlerIndex
           ELSE /\ handlerIndex' = _create_index(handlerIndex, createAnswer).index
                /\ UNCHANGED restIndex
        /\ last' = [last EXCEPT ![p] =
                        [@ EXCEPT !.pc = "done", !.createAnswer = createAnswer,
                                  !.created = ok, !.failed = ~ok,
                                  !.faulted = createAnswer # "ok",
                                  !.outcome = IF ok THEN "returned" ELSE RaceThrown]]
    /\ UNCHANGED <<program, service, handler>>

RaceNext ==
    \/ \E p \in RaceProcs : RaceConnect(p)
    \/ \E p \in RaceProcs : RaceCheckExists(p)
    \/ \E p \in RaceProcs : RaceCreate(p)

SpecRace == RaceInit /\ [][RaceNext]_vars

---------------------------------------------------------------------------

\* C14: in the index _create_index makes, the analyzer bound to the content field (the
\* one the match clauses and analyze_text name) tokenizes with the declared custom
\* tokenizer, the one configured with decompound_mode = mixed.
C14_AnalyzerUsesDeclaredTokenizer ==
    /\ (handlerIndex.exists) =>
          /\ handlerIndex.schema.analyzer = QueryAnalyzer
          /\ ContentTokenizer(handlerIndex.schema) \in handlerIndex.schema.custom_tokenizers
          /\ ContentTokenizer(handlerIndex.schema).decompound_mode = "mixed"
    /\ (last.op = "analyze_text" /\ last.ok) => last.decompound_mode = "mixed"

\* C15: when two processes have run the ensure-index step concurrently against the same
\* absent index name and the backend was reachable and accepted the schema throughout,
\* exactly one of them created the index and the step of neither failed.
C15_ConcurrentEnsureIndexSafe ==
    (\A p \in RaceProcs : last[p].pc = "done" /\ ~last[p].faulted) =>
        /\ SharedIndex.exists
        /\ Cardinality({p \in RaceProcs : last[p].created}) = 1
        /\ \A p \in RaceProcs : ~last[p].failed

\* C16: insert_embeddings reports success faithfully, whatever the lengths of contents
\* and metadata_list: it returns True only if it wrote exactly one document for each
\* element of contents, and False only if the index holds the documents it held before.
C16_InsertReportsFaithfully ==
    [][(last'.op = "insert_embeddings") =>
          /\ last'.result =>
                /\ Len(handlerIndex'.docs) = Len(handlerIndex.docs) + Len(last'.contents)
                /\ SubSeq(handlerIndex'.docs, 1, Len(handlerIndex.docs)) = handlerIndex.docs
                /\ \A i \in 1..Len(last'.contents) :
                      handlerIndex'.docs[Len(handlerIndex.docs) + i].content = last'.contents[i]
          /\ ~last'.result => handlerIndex'.docs = handlerIndex.docs
      ]_vars

====
